---- MODULE Spec2Model ----
(***************************************************************************)
(* State machine of the DerivLikeApp component (src/deriv_like_app.jsx):   *)
(* the mock price feed, the order list, the settlement sweep, the ledger   *)
(* balance, the event feed and the connect toggle.                         *)
(*                                                                         *)
(* Units.  Prices are integers in units of 0.00001 (toFixed(5)), money is  *)
(* in cents (toFixed(2)), order sizes are in hundredths of a lot (the size *)
(* input has step 0.01), timers are in milliseconds.  The price            *)
(* perturbation is drawn in units of 0.000001 so that rounding to five     *)
(* places is a real rounding.                                              *)
(*                                                                         *)
(* Scheduling.  Every handler and timer callback runs to completion; React *)
(* applies the queued state updaters in the order they were queued and     *)
(* re-runs an effect whose dependency changed before the next callback.    *)
(* The two intervals are exact (no drift).  toLocaleTimeString() values    *)
(* are opaque display strings and are represented by one token.            *)
(*                                                                         *)
(* Left out: the chat panel, the digit grid, the position state (never     *)
(* written) and the Run Indicator button (one more Publish of a system     *)
(* event).                                                                 *)
(***************************************************************************)
EXTENDS Integers, Sequences, FiniteSets, TLC

VARIABLES
  apiToken,       \* useState('')            line 27
  connected,      \* useState(false)         line 28
  balance,        \* useState(1000.00)       line 29, in cents
  price,          \* useState(1.1000)        line 31, in 0.00001
  candles,        \* useState([])            line 32
  orders,         \* useState([])            line 33, newest first
  feed,           \* useState([])            line 36, newest first
  tickDue,        \* ms until the 950 ms interval of lines 53-63 fires
  sweepDue,       \* ms until the 3500 ms interval of lines 69-83 fires
  capturedPrice,  \* the `price` the registered sweep callback closed over
  lastOp,         \* history: the operation that produced this state
  nTicks,         \* history: ticks performed
  nChanges,       \* history: ticks that changed the price
  nOps,           \* history: user operations performed
  pnlSum,         \* history: sum of the pnl of every fill performed, in cents
  adjusted        \* history: TRUE once deposit or reset has run

vars == <<apiToken, connected, balance, price, candles, orders, feed,
          tickDue, sweepDue, capturedPrice,
          lastOp, nTicks, nChanges, nOps, pnlSum, adjusted>>

----------------------------------------------------------------------------
(* Program constants *)

TickMs == 950
SweepMs == 3500
OrderCap == 50
FeedCap == 50
CandleCap == 200
SeedCount == 80
InitialBalance == 100000
ResetBalance == 100000
DepositAmount == 10000
SeedBase == 1080000
DeltaRange == 1500
LotFactor == 100

(* Bounds of the exploration *)

MaxTicks == 8
MaxChanges == 1
MaxOps == 1
CapTicks == 4

Time == "time"

----------------------------------------------------------------------------
(* Arithmetic helpers *)

Min(a, b) == IF a < b THEN a ELSE b

Abs(x) == IF x < 0 THEN -x ELSE x

\* x / unit rounded to the nearest integer, halves away from zero: the
\* decimal rounding Number.prototype.toFixed performs.
RoundDiv(x, unit) ==
  IF x >= 0 THEN (2 * x + unit) \div (2 * unit)
            ELSE -((2 * (-x) + unit) \div (2 * unit))

\* +(v).toFixed(2) of an amount given in units of 0.00001: the result in cents.
ToFixed2(x) == RoundDiv(x, 1000)

\* +(v).toFixed(5) of a price given in units of 0.000001: the result in 0.00001.
ToFixed5(x) == RoundDiv(x, 10)

\* Array.prototype.slice(0, n)
SliceHead(s, n) == SubSeq(s, 1, Min(n, Len(s)))

\* Array.prototype.slice(-n)
SliceTail(s, n) == IF Len(s) <= n THEN s ELSE SubSeq(s, Len(s) - n + 1, Len(s))

\* String.prototype.toUpperCase on the two side strings
ToUpperCase(side) == IF side = "buy" THEN "BUY" ELSE "SELL"


----------------------------------------------------------------------------
(* Inputs *)

\* Outcomes of (Math.random()-0.5)*0.0015 explored, in units of 0.000001:
\* one that rounds away (the price stays) and the lower end of the range.
Deltas == {4, -(DeltaRange \div 2)}

\* Outcomes of Math.random()*0.002 in the seed history, in units of 0.000001.
InitJitters == {1004}

\* (side, size) pairs the Buy and Sell buttons are pressed with; the size is
\* Number(input.value) in hundredths and may be zero or negative.
SubmitInputs == {<<"buy", 33>>, <<"sell", 100>>, <<"buy", 0>>, <<"sell", -100>>}

\* Values the token prompt returns: a token, or nothing.
Tokens == {"tok", ""}

\* Outcomes of Math.random().toString(36).slice(2,9) explored for a list os:
\* an id no order of the list has, or the id of the newest order of the list.
FreshId(os) == CHOOSE n \in 1..(Len(os) + 1) : \A i \in 1..Len(os) : os[i].id # n

IdChoices(os) == {FreshId(os)} \cup (IF os = <<>> THEN {} ELSE {os[1].id})

----------------------------------------------------------------------------
(* Seed history: lines 39-49 *)

\* Math.sin(i/10)*0.01 for i = 0..79, in units of 0.000001
SinTable == <<
     0, 998, 1987, 2955, 3894, 4794, 5646, 6442, 7174, 7833,
     8415, 8912, 9320, 9636, 9854, 9975, 9996, 9917, 9738, 9463,
     9093, 8632, 8085, 7457, 6755, 5985, 5155, 4274, 3350, 2392,
     1411, 416, -584, -1577, -2555, -3508, -4425, -5298, -6119, -6878,
     -7568, -8183, -8716, -9162, -9516, -9775, -9937, -9999, -9962, -9825,
     -9589, -9258, -8835, -8323, -7728, -7055, -6313, -5507, -4646, -3739,
     -2794, -1822, -831, 168, 1165, 2151, 3115, 4048, 4941, 5784,
     6570, 7290, 7937, 8504, 8987, 9380, 9679, 9882, 9985, 9989 >>

SeedPrice(i, jitter) == ToFixed5(SeedBase + SinTable[i + 1] + jitter)

InitialCandles(jitter) ==
  [k \in 1..SeedCount |-> [time |-> Time, price |-> SeedPrice(k - 1, jitter)]]

----------------------------------------------------------------------------
(* Event feed: every setFeed(f => [ev, ...f].slice(0,50)) *)

FeedEvent(type, text) == [type |-> type, text |-> text, time |-> Time]

\* Publish without the slice(0,50)
Publish_NoCap(f, ev) == <<ev>> \o f

Publish(f, ev) == SliceHead(<<ev>> \o f, FeedCap)

----------------------------------------------------------------------------
(* Price tick: lines 53-63 *)

\* The perturbation scaled by the whole range instead of half of it
NextPrice_TwiceTheRange(prev, delta) == ToFixed5(prev * 10 + 2 * delta)

NextPrice(prev, delta) == ToFixed5(prev * 10 + delta)

PushCandle(c, next) == SliceTail(Append(c, [time |-> Time, price |-> next]), CandleCap)

PriceEvent(next) == FeedEvent("price", <<"Price", next>>)

\* The effect restarting the interval with the callback still closing over
\* the price it first saw
RerunSweepEffect_StaleClosure(oldPrice, newPrice, due, captured) ==
  [due |-> IF newPrice # oldPrice THEN SweepMs ELSE due, captured |-> captured]

\* The effect of lines 67-85 has [price] as its dependency: when the price
\* changed, its cleanup clears the interval and a new 3500 ms interval is
\* registered whose callback closes over the new price.
RerunSweepEffect(oldPrice, newPrice, due, captured) ==
  IF newPrice # oldPrice
    THEN [due |-> SweepMs, captured |-> newPrice]
    ELSE [due |-> due, captured |-> captured]

----------------------------------------------------------------------------
(* Orders: placeOrder, lines 88-93 *)

\* The order recording the price as displayed to four places
NewOrder_FourPlaces(id, side, size, p) ==
  [id |-> id, side |-> side, size |-> size, price |-> (p \div 10) * 10,
   status |-> "pending", placedAt |-> Time]

NewOrder(id, side, size, p) ==
  [id |-> id, side |-> side, size |-> size, price |-> p,
   status |-> "pending", placedAt |-> Time]

\* placeOrder trimming with slice(-50): on a full list the new order is cut
PlaceOrder_TailSlice(os, ord) == SliceTail(<<ord>> \o os, OrderCap)

PlaceOrder(os, ord) == SliceHead(<<ord>> \o os, OrderCap)

OrderEvent(side, p, size) ==
  FeedEvent("order", <<"Placed", ToUpperCase(side), p, size>>)

----------------------------------------------------------------------------
(* Settlement sweep: lines 69-83 *)

\* +((side==='buy' ? p - o.price : o.price - p) * (o.size*100)).toFixed(2)
Profit(o, p) ==
  ToFixed2((IF o.side = "buy" THEN p - o.price ELSE o.price - p)
             * ((o.size * LotFactor) \div 100))

\* The fill forgetting to set the status
FillOrder_KeepStatus(o, p) ==
  [id |-> o.id, side |-> o.side, size |-> o.size, price |-> o.price,
   status |-> o.status, placedAt |-> o.placedAt,
   filledAt |-> Time, pnl |-> Profit(o, p)]

\* The fill storing the fill price over the entry price
FillOrder_OverwritesPrice(o, p) ==
  [id |-> o.id, side |-> o.side, size |-> o.size, price |-> p,
   status |-> "filled", placedAt |-> o.placedAt,
   filledAt |-> Time, pnl |-> Profit(o, p)]

FillOrder(o, p) ==
  [id |-> o.id, side |-> o.side, size |-> o.size, price |-> o.price,
   status |-> "filled", placedAt |-> o.placedAt,
   filledAt |-> Time, pnl |-> Profit(o, p)]

TradeEvent(o, profit) == FeedEvent("trade", <<"Order", o.id, profit>>)

\* The balance update rounding to whole units, toFixed(0)
AddProfit_WholeUnits(b, profit) == RoundDiv((b + profit) * 1000, 100000) * 100

\* setBalance(b => +(b + profit).toFixed(2)), the balance in cents
AddProfit(b, profit) == ToFixed2((b + profit) * 1000)

Pending(os) == {i \in 1..Len(os) : os[i].status = "pending"}

\* The map without the status guard
Selected_NoStatusGuard(os, sel, i) == i \in sel

Selected(os, sel, i) == os[i].status = "pending" /\ i \in sel

\* os.map(...), with sel the indices whose Math.random() > 0.5
SweepOrders(os, sel, p) ==
  [i \in 1..Len(os) |-> IF Selected(os, sel, i) THEN FillOrder(os[i], p) ELSE os[i]]

\* The orders the map fills, in index order: the order in which it queues
\* their setBalance and setFeed updaters.
NthOf(S, k) == CHOOSE i \in S : Cardinality({j \in S : j <= i}) = k

Fills(os, sel) ==
  LET F == {i \in 1..Len(os) : Selected(os, sel, i)}
  IN [k \in 1..Cardinality(F) |-> os[NthOf(F, k)]]

\* The queued setBalance updaters applied to the balance b
SweepBalance(os, sel, p, b) ==
  LET fs == Fills(os, sel)
      after[k \in 0..Len(fs)] ==
        IF k = 0 THEN b ELSE AddProfit(after[k - 1], Profit(fs[k], p))
  IN after[Len(fs)]

\* The queued setFeed updaters applied to the feed f
SweepFeed(os, sel, p, f) ==
  LET fs == Fills(os, sel)
      after[k \in 0..Len(fs)] ==
        IF k = 0 THEN f ELSE Publish(after[k - 1], TradeEvent(fs[k], Profit(fs[k], p)))
  IN after[Len(fs)]

\* The sum of the pnl values the map stores on the orders it fills
SumPnl(os, sel, p) ==
  LET fs == Fills(os, sel)
      sum[k \in 0..Len(fs)] ==
        IF k = 0 THEN 0 ELSE sum[k - 1] + FillOrder(fs[k], p).pnl
  IN sum[Len(fs)]

\* Outcomes of Math.random() > 0.5 explored: it holds for any subset of the
\* first and last order and the first and last pending order of the list,
\* and for no other order.
FirstPending(os) == CHOOSE i \in Pending(os) : \A j \in Pending(os) : i <= j

LastPending(os) == CHOOSE i \in Pending(os) : \A j \in Pending(os) : i >= j

CoinIndices(os) ==
  ({1, Len(os)} \cap (1..Len(os)))
    \cup (IF Pending(os) = {} THEN {} ELSE {FirstPending(os), LastPending(os)})

CoinOutcomes(os) == SUBSET CoinIndices(os)

----------------------------------------------------------------------------
(* Initial state: the component after mount.  The effect of lines 39-49 has
   seeded the history and set the price to its last entry, both intervals
   are registered and the sweep callback closes over the seeded price. *)

NoOp(op) == [op |-> op, side |-> "-", size |-> 0, n |-> 0]

Mounted(jitter) ==
  /\ apiToken = ""
  /\ connected = FALSE
  /\ balance = InitialBalance
  /\ candles = InitialCandles(jitter)
  /\ price = SeedPrice(SeedCount - 1, jitter)
  /\ orders = <<>>
  /\ feed = <<>>
  /\ tickDue = TickMs
  /\ sweepDue = SweepMs
  /\ capturedPrice = SeedPrice(SeedCount - 1, jitter)

FreshHistory ==
  /\ lastOp = NoOp("mount")
  /\ nTicks = 0
  /\ nChanges = 0
  /\ nOps = 0
  /\ pnlSum = 0
  /\ adjusted = FALSE

Init == (\E jitter \in InitJitters : Mounted(jitter)) /\ FreshHistory

----------------------------------------------------------------------------
(* Timer callbacks.  The next timer event is the one due first; the time to
   it elapses on both timers. *)

TickStep(delta) ==
  LET next == NextPrice(price, delta)
      eff == RerunSweepEffect(price, next, sweepDue - tickDue, capturedPrice)
  IN /\ price' = next
     /\ candles' = PushCandle(candles, next)
     /\ feed' = Publish(feed, PriceEvent(next))
     /\ tickDue' = TickMs
     /\ sweepDue' = eff.due
     /\ capturedPrice' = eff.captured
     /\ lastOp' = [op |-> "tick", side |-> "-", size |-> 0,
                   n |-> IF next # price THEN 1 ELSE 0]
     /\ UNCHANGED <<apiToken, connected, balance, orders, nOps, pnlSum, adjusted>>

Tick ==
  /\ tickDue <= sweepDue
  /\ nTicks < MaxTicks
  /\ \E delta \in Deltas :
       /\ (NextPrice(price, delta) # price => nChanges < MaxChanges)
       /\ TickStep(delta)
  /\ nTicks' = nTicks + 1
  /\ nChanges' = IF price' # price THEN nChanges + 1 ELSE nChanges

SweepStep(sel) ==
  /\ orders' = IF Len(orders) = 0 THEN orders ELSE SweepOrders(orders, sel, capturedPrice)
  /\ balance' = SweepBalance(orders, sel, capturedPrice, balance)
  /\ feed' = SweepFeed(orders, sel, capturedPrice, feed)
  /\ pnlSum' = pnlSum + SumPnl(orders, sel, capturedPrice)
  /\ lastOp' = [op |-> "sweep", side |-> "-", size |-> 0, n |-> Len(Fills(orders, sel))]

Sweep ==
  /\ sweepDue <= tickDue
  /\ \E sel \in CoinOutcomes(orders) : SweepStep(sel)
  /\ tickDue' = tickDue - sweepDue
  /\ sweepDue' = SweepMs
  /\ UNCHANGED <<apiToken, connected, price, candles, capturedPrice,
                 nTicks, nChanges, nOps, adjusted>>

----------------------------------------------------------------------------
(* User operations; they take no time. *)

UserOp == nOps < MaxOps /\ nOps' = nOps + 1

\* Buy / Sell buttons, lines 160-161, calling placeOrder, lines 88-93
SubmitStep(id, side, size) ==
  /\ orders' = PlaceOrder(orders, NewOrder(id, side, size, price))
  /\ feed' = Publish(feed, OrderEvent(side, price, size))
  /\ lastOp' = [op |-> "submit", side |-> side, size |-> size, n |-> id]
  /\ UNCHANGED <<apiToken, connected, balance, price, candles,
                 tickDue, sweepDue, capturedPrice>>

Submit ==
  /\ UserOp
  /\ \E in \in SubmitInputs : \E id \in IdChoices(orders) : SubmitStep(id, in[1], in[2])
  /\ UNCHANGED <<nTicks, nChanges, pnlSum, adjusted>>

\* toggleConnect connecting without looking at the token
ToggleConnectStep_NoTokenCheck ==
  /\ IF connected
       THEN /\ connected' = FALSE
            /\ feed' = Publish(feed, FeedEvent("system", <<"Disconnected from market">>))
            /\ lastOp' = NoOp("disconnect")
       ELSE /\ connected' = TRUE
            /\ feed' = Publish(feed, FeedEvent("system", <<"Connected to market (mock)">>))
            /\ lastOp' = NoOp(IF apiToken = "" THEN "connect-refused" ELSE "connect")
  /\ UNCHANGED <<apiToken, balance, price, candles, orders,
                 tickDue, sweepDue, capturedPrice,
                 nTicks, nChanges, pnlSum, adjusted>>

\* toggleConnect disconnecting without publishing the event
ToggleConnectStep_SilentDisconnect ==
  /\ IF connected
       THEN /\ connected' = FALSE
            /\ feed' = feed
            /\ lastOp' = NoOp("disconnect")
       ELSE IF apiToken = ""
         THEN /\ connected' = connected
              /\ feed' = Publish(feed, FeedEvent("error", <<"No API token configured. Use settings.">>))
              /\ lastOp' = NoOp("connect-refused")
         ELSE /\ connected' = TRUE
              /\ feed' = Publish(feed, FeedEvent("system", <<"Connected to market (mock)">>))
              /\ lastOp' = NoOp("connect")
  /\ UNCHANGED <<apiToken, balance, price, candles, orders,
                 tickDue, sweepDue, capturedPrice,
                 nTicks, nChanges, pnlSum, adjusted>>

\* toggleConnect, lines 95-109
ToggleConnectStep ==
  /\ IF connected
       THEN /\ connected' = FALSE
            /\ feed' = Publish(feed, FeedEvent("system", <<"Disconnected from market">>))
            /\ lastOp' = NoOp("disconnect")
       ELSE IF apiToken = ""
         THEN /\ connected' = connected
              /\ feed' = Publish(feed, FeedEvent("error", <<"No API token configured. Use settings.">>))
              /\ lastOp' = NoOp("connect-refused")
         ELSE /\ connected' = TRUE
              /\ feed' = Publish(feed, FeedEvent("system", <<"Connected to market (mock)">>))
              /\ lastOp' = NoOp("connect")
  /\ UNCHANGED <<apiToken, balance, price, candles, orders,
                 tickDue, sweepDue, capturedPrice,
                 nTicks, nChanges, pnlSum, adjusted>>

\* Header button, line 126, calling toggleConnect
ToggleConnect == UserOp /\ ToggleConnectStep

\* the handler of the settings button, line 129: if(token) setApiToken(token)
SetTokenStep ==
  /\ \E token \in Tokens :
       apiToken' = IF token # "" THEN token ELSE apiToken
  /\ lastOp' = NoOp("token")
  /\ UNCHANGED <<connected, balance, price, candles, orders, feed,
                 tickDue, sweepDue, capturedPrice,
                 nTicks, nChanges, pnlSum, adjusted>>

\* Settings button, line 129
SetToken == UserOp /\ SetTokenStep

\* Deposit writing the balance it was rendered with at mount plus 100
Deposit_StaleBalance ==
  /\ UserOp
  /\ balance' = InitialBalance + DepositAmount
  /\ feed' = Publish(feed, FeedEvent("system", <<"Deposited $100 (demo)">>))
  /\ lastOp' = NoOp("deposit")
  /\ adjusted' = TRUE
  /\ UNCHANGED <<apiToken, connected, price, candles, orders,
                 tickDue, sweepDue, capturedPrice,
                 nTicks, nChanges, pnlSum>>

\* Deposit button, line 255
Deposit ==
  /\ UserOp
  /\ balance' = balance + DepositAmount
  /\ feed' = Publish(feed, FeedEvent("system", <<"Deposited $100 (demo)">>))
  /\ lastOp' = NoOp("deposit")
  /\ adjusted' = TRUE
  /\ UNCHANGED <<apiToken, connected, price, candles, orders,
                 tickDue, sweepDue, capturedPrice,
                 nTicks, nChanges, pnlSum>>

\* Reset setting the balance only
Reset_KeepsOrders ==
  /\ UserOp
  /\ balance' = ResetBalance
  /\ feed' = Publish(feed, FeedEvent("system", <<"Reset demo state">>))
  /\ lastOp' = NoOp("reset")
  /\ adjusted' = TRUE
  /\ UNCHANGED <<apiToken, connected, price, candles, orders,
                 tickDue, sweepDue, capturedPrice,
                 nTicks, nChanges, pnlSum>>

\* Reset button, line 256
Reset ==
  /\ UserOp
  /\ balance' = ResetBalance
  /\ orders' = <<>>
  /\ feed' = Publish(feed, FeedEvent("system", <<"Reset demo state">>))
  /\ lastOp' = NoOp("reset")
  /\ adjusted' = TRUE
  /\ UNCHANGED <<apiToken, connected, price, candles,
                 tickDue, sweepDue, capturedPrice,
                 nTicks, nChanges, pnlSum>>

Next == Tick \/ Sweep \/ Submit \/ ToggleConnect \/ SetToken \/ Deposit \/ Reset

Spec == Init /\ [][Next]_vars


----------------------------------------------------------------------------
(* A busy account: the state the component is in after PrefillTicks ticks
   that each changed the price (so no sweep fired) followed by PrefillOrders
   Buy clicks before the next tick.  Every list is at its capacity. *)

PrefillTicks == CandleCap - SeedCount
PrefillOrders == OrderCap
PrefillInput == <<"buy", 33>>

\* The price after the k-th prefill tick: a tick moves it down by the full
\* half range and the next tick moves it back up.
PrefillPrice(p0, k) ==
  IF k % 2 = 1
    THEN NextPrice(p0, -(DeltaRange \div 2))
    ELSE NextPrice(NextPrice(p0, -(DeltaRange \div 2)), DeltaRange \div 2 - 1)

\* lines 58 and 60 applied once per prefill tick
PrefillCandles(c, p0, n) ==
  SliceTail(c \o [k \in 1..n |-> [time |-> Time, price |-> PrefillPrice(p0, k)]],
            CandleCap)

PrefillTickFeed(p0, n) ==
  SliceHead([k \in 1..n |-> PriceEvent(PrefillPrice(p0, n - k + 1))], FeedCap)

\* lines 91 and 92 applied once per prefill click; click k gets id 100 + k
PrefillOrderList(p, n) ==
  SliceHead([k \in 1..n |-> NewOrder(100 + (n - k + 1), PrefillInput[1], PrefillInput[2], p)],
            OrderCap)

PrefillClickFeed(f, p, n) ==
  SliceHead([k \in 1..n |-> OrderEvent(PrefillInput[1], p, PrefillInput[2])] \o f, FeedCap)

Busy(jitter) ==
  LET p0 == SeedPrice(SeedCount - 1, jitter)
      p == PrefillPrice(p0, PrefillTicks)
  IN /\ apiToken = ""
     /\ connected = FALSE
     /\ balance = InitialBalance
     /\ candles = PrefillCandles(InitialCandles(jitter), p0, PrefillTicks)
     /\ price = p
     /\ orders = PrefillOrderList(p, PrefillOrders)
     /\ feed = PrefillClickFeed(PrefillTickFeed(p0, PrefillTicks), p, PrefillOrders)
     /\ tickDue = TickMs
     /\ sweepDue = SweepMs
     /\ capturedPrice = p

CapInit == (\E jitter \in InitJitters : Busy(jitter)) /\ FreshHistory

\* The busy account is followed over its first CapTicks ticks.
CapTick == Tick /\ nTicks' <= CapTicks

CapNext == CapTick \/ Sweep \/ Submit \/ ToggleConnect \/ SetToken \/ Deposit \/ Reset

CapSpec == CapInit /\ [][CapNext]_vars


----------------------------------------------------------------------------
(* The connection panel: the mounted component over its first ConnTicks
   ticks, with up to MaxConnOps presses of the connect and settings buttons
   and no other user operation. *)

ConnTicks == 4
MaxConnOps == 4

ConnOp == nOps < MaxConnOps /\ nOps' = nOps + 1

ConnTick == Tick /\ nTicks' <= ConnTicks

ConnToggle == ConnOp /\ ToggleConnectStep

ConnSetToken == ConnOp /\ SetTokenStep

ConnNext == ConnTick \/ Sweep \/ ConnToggle \/ ConnSetToken

ConnSpec == Init /\ [][ConnNext]_vars


----------------------------------------------------------------------------
(* A long fall: the state the component is in after DriftTicks ticks that
   each drew the lower end of the perturbation range (every one of them
   changed the price, so no sweep fired), followed over its next LowTicks
   ticks. *)

DriftTicks == 1450
LowTicks == 6

\* The price after k such ticks: each tick moves it by the same amount.
DriftPrice(p0, k) == p0 + k * (NextPrice(p0, -(DeltaRange \div 2)) - p0)

\* lines 58 and 60 applied once per tick of the fall
DriftCandles(c, p0, n) ==
  SliceTail(c \o [k \in 1..n |-> [time |-> Time, price |-> DriftPrice(p0, k)]],
            CandleCap)

DriftFeed(p0, n) ==
  SliceHead([k \in 1..n |-> PriceEvent(DriftPrice(p0, n - k + 1))], FeedCap)

Drifted(jitter) ==
  LET p0 == SeedPrice(SeedCount - 1, jitter)
      p == DriftPrice(p0, DriftTicks)
  IN /\ apiToken = ""
     /\ connected = FALSE
     /\ balance = InitialBalance
     /\ candles = DriftCandles(InitialCandles(jitter), p0, DriftTicks)
     /\ price = p
     /\ orders = <<>>
     /\ feed = DriftFeed(p0, DriftTicks)
     /\ tickDue = TickMs
     /\ sweepDue = SweepMs
     /\ capturedPrice = p

LowInit == (\E jitter \in InitJitters : Drifted(jitter)) /\ FreshHistory

LowTick ==
  /\ tickDue <= sweepDue
  /\ nTicks < LowTicks
  /\ \E delta \in Deltas : TickStep(delta)
  /\ nTicks' = nTicks + 1
  /\ nChanges' = IF price' # price THEN nChanges + 1 ELSE nChanges

LowNext == LowTick \/ Sweep \/ Submit

LowSpec == LowInit /\ [][LowNext]_vars


----------------------------------------------------------------------------
(* Properties.  An order is followed from one state to the next by its
   position: placeOrder moves every order one place down, every other
   operation but Reset leaves the positions alone. *)

Shift == IF lastOp'.op = "submit" THEN 1 ELSE 0

Survives(i) == i + Shift <= Len(orders')

Successor(i) == orders'[i + Shift]

NewlyFilled ==
  {i \in 1..Len(orders) :
     /\ Survives(i)
     /\ orders[i].status = "pending"
     /\ Successor(i).status = "filled"}

PnlOver(os, S) ==
  LET sum[k \in 0..Cardinality(S)] ==
        IF k = 0 THEN 0 ELSE sum[k - 1] + os[NthOf(S, k)].pnl
  IN sum[Cardinality(S)]

SubmitDone == lastOp'.op = "submit"

SweepDone == lastOp'.op = "sweep"

TickDone == lastOp'.op = "tick"

AnyFilled == \E i \in 1..Len(orders) : orders[i].status = "filled"

\* C2: a price tick never cancels, restarts or postpones the scheduled
\* settlement sweep: over a tick the time left to the sweep shrinks by exactly
\* the time that elapsed, whether or not the price changed.
C2_TickLeavesSweepTimer ==
  [][TickDone => sweepDue' = sweepDue - tickDue]_vars

C3_WellFormed ==
  \A i \in 1..Len(orders) :
     /\ orders[i].status \in {"pending", "filled"}
     /\ ("pnl" \in DOMAIN orders[i]) <=> (orders[i].status = "filled")
     /\ ("filledAt" \in DOMAIN orders[i]) <=> (orders[i].status = "filled")

C3_NoWayBack ==
  \A i \in 1..Len(orders) :
     (Survives(i) /\ orders[i].status = "filled") => Successor(i).status = "filled"

\* C3: an order's status goes only from pending to filled and never back,
\* and an order carries pnl and filledAt exactly when it is filled.
C3_StatusLifecycle == [](C3_WellFormed) /\ [][C3_NoWayBack]_vars

C3_Witness ==
  /\ lastOp.op = "sweep"
  /\ lastOp.n >= 1
  /\ AnyFilled
  /\ \E i \in 1..Len(orders) : orders[i].status = "filled" /\ orders[i].pnl # 0

\* C4: submitOrder with size <= 0 is refused: the order list, the balance
\* and the feed are left as they were.
C4_NonPositiveSizeRefused ==
  [][(SubmitDone /\ lastOp'.size <= 0) => UNCHANGED <<orders, balance, feed>>]_vars

C5_FilledIsFinal ==
  \A i \in 1..Len(orders) :
     (Survives(i) /\ orders[i].status = "filled") => Successor(i) = orders[i]

C5_SweepPaysOnce ==
  SweepDone =>
    LET n == Cardinality(NewlyFilled)
    IN /\ balance' = balance + PnlOver(orders', NewlyFilled)
       /\ Len(feed') = Min(Len(feed) + n, FeedCap)
       /\ \A k \in 1..Len(feed') :
            IF k <= n
              THEN LET o == orders'[NthOf(NewlyFilled, n - k + 1)]
                   IN feed'[k].type = "trade" /\ feed'[k].text = <<"Order", o.id, o.pnl>>
              ELSE feed'[k] = feed[k - n]

C5_NoTradeElsewhere ==
  (~SweepDone /\ feed' # feed) => feed'[1].type # "trade"

\* C5: a filled order is never evaluated again: it stays as it is for as long
\* as it is in the list, and a sweep adds to the balance the pnl of the orders
\* it fills, once each, and publishes one Trade event for each of them and
\* none for any other order.
C5_FillsExactlyOnce ==
  [][C5_FilledIsFinal /\ C5_SweepPaysOnce /\ C5_NoTradeElsewhere]_vars

\* a sweep that found an order filled by an earlier sweep at a profit or loss
C5_Witness ==
  /\ lastOp.op = "sweep"
  /\ lastOp.n = 0
  /\ \E i \in 1..Len(orders) : orders[i].status = "filled" /\ orders[i].pnl # 0

C7_Expected(o, fillPrice) ==
  IF o.side = "buy"
    THEN RoundDiv((fillPrice - o.price) * o.size, 1000)
    ELSE RoundDiv((o.price - fillPrice) * o.size, 1000)

\* C7: the pnl a sweep stores on an order is computed from the current price
\* at the moment of the sweep: (price - entry) * size * 100 for a Buy,
\* (entry - price) * size * 100 for a Sell, rounded to cents.
C7_PnlFromCurrentPrice ==
  [][SweepDone =>
       \A i \in NewlyFilled : orders'[i].pnl = C7_Expected(orders[i], price)]_vars

\* an order filled at a price other than its entry price
C7_Witness ==
  /\ lastOp.op = "sweep"
  /\ lastOp.n >= 1
  /\ \E i \in 1..Len(orders) :
       /\ orders[i].status = "filled"
       /\ orders[i].price # price
       /\ orders[i].pnl # 0

\* C8: the order list never has more than 50 entries, the feed never more
\* than 50 and the price history never more than 200.
C8_Capacities ==
  /\ Len(orders) <= OrderCap
  /\ Len(feed) <= FeedCap
  /\ Len(candles) <= CandleCap

\* every list full, after a tick and a submission on the full lists
C8_Witness ==
  /\ Len(orders) = OrderCap
  /\ Len(feed) = FeedCap
  /\ Len(candles) = CandleCap
  /\ nTicks >= 1
  /\ lastOp.op = "submit"

\* C9: after a successful submit the list is the new order followed by the
\* previous entries in their previous order, cut to 50: on a full list only
\* the oldest entry is dropped.
C9_PrependAndTrimOldest ==
  [][(SubmitDone /\ lastOp'.size > 0) =>
       /\ Len(orders') = Min(Len(orders) + 1, OrderCap)
       /\ orders'[1].id = lastOp'.n
       /\ orders'[1].status = "pending"
       /\ \A i \in 1..Len(orders) : Survives(i) => Successor(i) = orders[i]
       /\ (Len(orders) = OrderCap => \A i \in 1..(OrderCap - 1) : Survives(i))]_vars

\* a submit on the full list of the busy account: its oldest order, id 101,
\* is gone and the second oldest, id 102, is now the last
C9_Witness ==
  /\ lastOp.op = "submit"
  /\ lastOp.size > 0
  /\ Len(orders) = OrderCap
  /\ orders[OrderCap].id = 102
  /\ orders[2].id = 100 + PrefillOrders

\* C10: a successful submit adds one pending order at the current price with
\* no pnl and no filledAt, publishes one Order event, and leaves the balance,
\* the price, the price history and the connection state alone.
C10_SubmitEffect ==
  [][(SubmitDone /\ lastOp'.size > 0) =>
       /\ Len(orders') = Min(Len(orders) + 1, OrderCap)
       /\ orders'[1].status = "pending"
       /\ orders'[1].price = price
       /\ orders'[1].side = lastOp'.side
       /\ orders'[1].size = lastOp'.size
       /\ DOMAIN orders'[1] \cap {"pnl", "filledAt"} = {}
       /\ \A i \in 2..Len(orders') : orders'[i] = orders[i - 1]
       /\ Len(feed') = Min(Len(feed) + 1, FeedCap)
       /\ feed'[1].type = "order"
       /\ feed'[1].text = <<"Placed", ToUpperCase(lastOp'.side), price, lastOp'.size>>
       /\ \A k \in 2..Len(feed') : feed'[k] = feed[k - 1]
       /\ UNCHANGED <<balance, price, candles, connected>>]_vars

\* a submit at a price the ticks have moved away from the seeded one
C10_Witness ==
  /\ lastOp.op = "submit"
  /\ lastOp.size > 0
  /\ nChanges >= 1
  /\ orders # <<>>
  /\ orders[1].price = price
  /\ balance = InitialBalance


ResetDone == lastOp'.op = "reset"

DepositDone == lastOp'.op = "deposit"

ToggleDone == lastOp'.op \in {"connect", "connect-refused", "disconnect"}

\* C11: every submitted order has a unique id: no two orders of the list
\* have the same id, so that the id in a Trade event names one order.
C11_UniqueIds ==
  \A i \in 1..Len(orders) : \A j \in 1..Len(orders) :
     i # j => orders[i].id # orders[j].id

\* C12: a reset, from any state, leaves the balance at the reset value 1000.00
\* and the order list empty, and from then on no tick and no sweep changes
\* the balance or brings an order back for as long as nothing is submitted:
\* no fill of an order that existed before the reset is paid after it.
C12_ResetClearsLedgerAndOrders ==
  /\ [][ResetDone => (balance' = ResetBalance /\ orders' = <<>>)]_vars
  /\ [][(orders = <<>> /\ (SweepDone \/ TickDone)) =>
          (balance' = balance /\ orders' = <<>>)]_vars

\* a reset of an account whose balance earlier fills had moved
C12_Witness ==
  /\ lastOp.op = "reset"
  /\ pnlSum # 0
  /\ orders = <<>>
  /\ balance = ResetBalance

\* C13: connect with no credential configured fails: connected stays false,
\* no System event is published (the failure is an Error event), and the
\* balance, the orders and the price are unchanged.
C13_ConnectWithoutCredential ==
  [][(ToggleDone /\ ~connected /\ apiToken = "") =>
       /\ connected' = FALSE
       /\ Len(feed') = Min(Len(feed) + 1, FeedCap)
       /\ feed'[1].type = "error"
       /\ \A k \in 2..Len(feed') : feed'[k] = feed[k - 1]
       /\ UNCHANGED <<apiToken, balance, orders, price, candles>>]_vars

C13_Witness ==
  /\ lastOp.op = "connect-refused"
  /\ ~connected
  /\ apiToken = ""
  /\ nTicks >= 1
  /\ feed[1].type = "error"
  /\ feed[2].type = "price"

SystemEvents(f) == SelectSeq(f, LAMBDA e : e.type = "system")

C14_Connects ==
  (ToggleDone /\ ~connected /\ apiToken # "") =>
     /\ connected' = TRUE
     /\ Len(feed') = Min(Len(feed) + 1, FeedCap)
     /\ feed'[1] = FeedEvent("system", <<"Connected to market (mock)">>)
     /\ \A k \in 2..Len(feed') : feed'[k] = feed[k - 1]

C14_Disconnects ==
  (ToggleDone /\ connected) =>
     /\ connected' = FALSE
     /\ Len(feed') = Min(Len(feed) + 1, FeedCap)
     /\ feed'[1] = FeedEvent("system", <<"Disconnected from market">>)
     /\ \A k \in 2..Len(feed') : feed'[k] = feed[k - 1]

C14_PairLeavesTwoEvents ==
  (ToggleDone /\ connected /\ Len(feed) < FeedCap) =>
     /\ Len(SystemEvents(feed')) >= 2
     /\ SystemEvents(feed')[1].text = <<"Disconnected from market">>
     /\ SystemEvents(feed')[2].text = <<"Connected to market (mock)">>
     /\ Len(SystemEvents(feed')) = Len(SystemEvents(feed)) + 1

\* C14: with a credential configured, connect sets connected and publishes
\* one System event, a following disconnect clears connected and publishes
\* one System event: the pair leaves connected false and the two System
\* events in the feed, the disconnect event above the connect event.
C14_ConnectThenDisconnect ==
  [][C14_Connects /\ C14_Disconnects /\ C14_PairLeavesTwoEvents]_vars

\* a connect and a disconnect with price ticks around them
C14_Witness ==
  /\ lastOp.op = "disconnect"
  /\ ~connected
  /\ apiToken # ""
  /\ nTicks >= 1
  /\ Len(SystemEvents(feed)) = 2
  /\ SystemEvents(feed)[1].text = <<"Disconnected from market">>
  /\ SystemEvents(feed)[2].text = <<"Connected to market (mock)">>
  /\ feed[2].type = "price"

\* C15: disconnect is idempotent: invoked again right after a disconnect, the
\* operation leaves connected false.
C15_DisconnectIdempotent ==
  [][(lastOp.op = "disconnect" /\ ToggleDone) => connected' = FALSE]_vars

\* C16: the current price and every entry of the price history are strictly
\* positive in every reachable state, after any number of ticks.
C16_PricePositive ==
  /\ price > 0
  /\ \A i \in 1..Len(candles) : candles[i].price > 0

\* half of the perturbation range, in units of 0.00001
MaxDelta == DeltaRange \div 20

\* C17: over every tick the new price differs from the previous one by at
\* most maxDelta = 0.00075 after rounding to five places, and the value the
\* tick appends to the price history is the value that becomes the price.
C17_TickBoundedAndRecorded ==
  [][TickDone =>
       /\ Abs(price' - price) <= MaxDelta
       /\ Len(candles') = Min(Len(candles) + 1, CandleCap)
       /\ candles'[Len(candles')].price = price']_vars

\* a tick that moved the price by the whole of maxDelta
C17_Witness ==
  /\ lastOp.op = "tick"
  /\ lastOp.n = 1
  /\ Len(candles) >= 2
  /\ candles[Len(candles)].price = price
  /\ Abs(price - candles[Len(candles) - 1].price) = MaxDelta

C18_OrdersStay ==
  ~ResetDone =>
    \A i \in 1..Len(orders) :
       IF Survives(i)
         THEN /\ Successor(i).id = orders[i].id
              /\ (orders[i].status = "filled" => Successor(i) = orders[i])
         ELSE SubmitDone /\ Len(orders) = OrderCap /\ i = OrderCap

C18_SubmitLands ==
  SubmitDone => (orders'[1].id = lastOp'.n /\ orders'[1].status = "pending")

C18_BalanceAccumulates ==
  /\ (DepositDone => balance' = balance + DepositAmount)
  /\ (SweepDone => balance' = balance + PnlOver(orders', NewlyFilled))
  /\ (~(DepositDone \/ SweepDone \/ ResetDone) => balance' = balance)

\* C18: no update is lost in any interleaving of submissions, sweeps, ticks
\* and deposits: but for a reset, every order stays in the list until the cap
\* trims it as the oldest, a fill stays as it was recorded, a submitted order
\* is in the list after the submit, a deposit adds 100 to the balance as it
\* is, a sweep adds the pnl of its fills to the balance as it is, and no
\* other step writes the balance.
C18_NoLostUpdate ==
  [][C18_OrdersStay /\ C18_SubmitLands /\ C18_BalanceAccumulates]_vars

\* a deposit made after a sweep had paid fills: both are in the balance
C18_Witness ==
  /\ lastOp.op = "deposit"
  /\ pnlSum # 0
  /\ AnyFilled
  /\ Pending(orders) # {}
  /\ balance = InitialBalance + pnlSum + DepositAmount

----------------------------------------------------------------------------
(* The component running for ever.  The first MaxTicks ticks and the
   submissions made during them are explored as in Spec; from then on the
   perturbation follows one pattern for ever: a tick that rounds away, then a
   tick that moves the price by the half range, towards RefPrice. *)

RefPrice == ToFixed5(SeedBase)

LastTickWasQuiet ==
  candles[Len(candles)].price = candles[Len(candles) - 1].price

SteadyDelta ==
  IF ~LastTickWasQuiet THEN 4
  ELSE IF price >= RefPrice THEN -(DeltaRange \div 2) ELSE DeltaRange \div 2 - 1

FairTick ==
  /\ tickDue <= sweepDue
  /\ \E delta \in (IF nTicks < MaxTicks THEN Deltas ELSE {SteadyDelta}) :
       /\ (nTicks < MaxTicks /\ NextPrice(price, delta) # price => nChanges < MaxChanges)
       /\ TickStep(delta)
  /\ nTicks' = IF nTicks < MaxTicks THEN nTicks + 1 ELSE nTicks
  /\ nChanges' = IF nTicks < MaxTicks /\ price' # price THEN nChanges + 1 ELSE nChanges

FairSubmit == nTicks < MaxTicks /\ Submit

FairNext == FairTick \/ Sweep \/ FairSubmit

QuietTick == FairTick /\ price' = price

ChangingTick == FairTick /\ price' # price

SweepFillsAll == Sweep /\ Pending(orders') = {}

\* Both intervals fire when due (weak fairness of the two callbacks), each
\* outcome of the perturbation that is possible again and again occurs again
\* and again, and so does the coin outcome that fills every pending order.
FairSpec ==
  /\ Init
  /\ [][FairNext]_vars
  /\ WF_vars(FairTick)
  /\ WF_vars(Sweep)
  /\ SF_vars(QuietTick)
  /\ SF_vars(ChangingTick)
  /\ SF_vars(SweepFillsAll)

\* C1: with both timers and the random draws fair, every pending order that
\* is neither reset away nor trimmed is eventually filled.  (FairSpec has no
\* reset and never fills the list; the orders followed are those of a
\* positive size.)
C1_PendingEventuallyFilled ==
  \A n \in 1..MaxOps :
    (\E i \in 1..Len(orders) :
        orders[i].id = n /\ orders[i].size > 0 /\ orders[i].status = "pending")
      ~> (\E i \in 1..Len(orders) : orders[i].id = n /\ orders[i].status = "filled")

====
